---- MODULE Spec2Model ----
(***************************************************************************)
(* A model of src/main.go: an fx application that builds an http.ServeMux  *)
(* from the "routes" value group (EchoHandler, HelloHandler), wraps it in  *)
(* an http.Server on ":8080", and starts / stops that server from an       *)
(* fx.Hook.                                                                *)
(*                                                                         *)
(* main.go is a composition root: what it does is decided by the calls it  *)
(* makes into net, net/http, io, fmt and fx.  Each such call is modelled   *)
(* at the place main.go makes it, by the documented behaviour of the       *)
(* callee (Go standard library, go.uber.org/fx):                           *)
(*   net.Listen        binds the port, or fails when it is taken;          *)
(*   Server.Serve      tracks the listener unless the server is shutting   *)
(*                     down, accepts in a loop, closes the listener on     *)
(*                     return;                                             *)
(*   Server.Shutdown   sets    inShutdown, closes the tracked listeners,     *)
(*                     closes idle connections, waits for the others to    *)
(*                     become idle, and returns ctx.Err() when ctx is done *)
(*                     first, WITHOUT closing the connections still busy;  *)
(*   ServeMux.Handle   panics on a pattern registered twice;              *)
(*   ServeMux.ServeHTTP redirects (301) a request whose path is not in    *)
(*                     canonical form, else serves the matching pattern,   *)
(*                     else 404;                                           *)
(*   App.Run           Start, wait for a signal, Stop, exit.               *)
(*                                                                         *)
(* Text is a sequence of byte values.  A URL path is the sequence of its   *)
(* segments: "/" followed by the segments joined by "/", so <<"echo">> is  *)
(* "/echo", <<"echo", "">> is "/echo/", <<"">> is "/", <<"", "echo">> is   *)
(* "//echo" and <<>> is the empty path.                                    *)
(***************************************************************************)
EXTENDS Integers, Sequences, FiniteSets, TLC

(***************************************************************************)
(* Bounds of the model.                                                    *)
(***************************************************************************)
\* longest request body, in bytes
MaxBody == 2

\* most segments of a request path
MaxSegs == 2

\* most connection attempts made over a run
MaxConns == 2

\* most OnStart invocations over a run of the hooks
MaxStarts == 2

\* most OnStop invocations over a run of the hooks
MaxStops == 2

(***************************************************************************)
(* Text helpers.                                                           *)
(***************************************************************************)
Prefix(s, n) == SubSeq(s, 1, IF n < Len(s) THEN n ELSE Len(s))

\* "Hello, "
HelloPrefix == <<72, 101, 108, 108, 111, 44, 32>>

\* "\n"
Newline == <<10>>

\* "Internal server error"
InternalServerErrorMsg ==
    <<73, 110, 116, 101, 114, 110, 97, 108, 32, 115, 101, 114, 118, 101, 114,
      32, 101, 114, 114, 111, 114>>

\* "404 page not found"
NotFoundMsg ==
    <<52, 48, 52, 32, 112, 97, 103, 101, 32, 110, 111, 116, 32, 102, 111,
      117, 110, 100>>

StatusOK == 200

StatusMovedPermanently == 301

StatusNotFound == 404

StatusInternalServerError == 500

\* no read / write failure is injected
NoErr == -1

(***************************************************************************)
(* The Route interface and its two implementations.                        *)
(***************************************************************************)
Handlers == {"EchoHandler", "HelloHandler"}

Pattern(h) == IF h = "EchoHandler" THEN <<"echo">> ELSE <<"hello">>

(***************************************************************************)
(* The response writer.  A response is [status, body, wroteHeader]; the    *)
(* writer of a request accepts `limit` body bytes in all and fails the     *)
(* Write that would pass it (NoErr: it never fails).                       *)
(***************************************************************************)
NewResponse == [status |-> StatusOK, body |-> <<>>, wroteHeader |-> FALSE]

\* ResponseWriter.WriteHeader: the first status sticks.
WriteHeader(w, code) ==
    IF w.wroteHeader THEN w
    ELSE [w EXCEPT !.status = code, !.wroteHeader = TRUE]

\* ResponseWriter.Write: an implicit WriteHeader(200), then the bytes that fit.
WriteOk(w, p, limit) == limit = NoErr \/ Len(w.body) + Len(p) <= limit

Write(w, p, limit) ==
    LET h == WriteHeader(w, StatusOK)
    IN  IF WriteOk(w, p, limit)
        THEN [h EXCEPT !.body = h.body \o p]
        ELSE [h EXCEPT !.body = h.body \o Prefix(p, limit - Len(h.body))]

\* http.Error: WriteHeader(code), then the message and a newline.
HttpError(w, msg, code, limit) == Write(WriteHeader(w, code), msg \o Newline, limit)

\* The server finishing the response after the handler returns.
FinishRequest(w) == WriteHeader(w, StatusOK)

(***************************************************************************)
(* Reading a request body.  A request is [path, body, readErrAt, limit]:   *)
(* reading the body yields its first readErrAt bytes and then an error     *)
(* (NoErr: all of it, then EOF).                                           *)
(***************************************************************************)
\* io.ReadAll(r.Body)
ReadAll(r) ==
    IF r.readErrAt = NoErr
    THEN [data |-> r.body, err |-> FALSE]
    ELSE [data |-> Prefix(r.body, r.readErrAt), err |-> TRUE]

\* io.Copy with a loop that stops one chunk short.
IoCopyDropsLast(w, r, pos) ==
    [w |-> Write(w, Prefix(r.body, Len(r.body) - 1), r.limit), err |-> FALSE]

\* io.Copy(w, r.Body): read a chunk, write it, until EOF or the first error.
\* Chunks are single bytes; pos is the number of bytes read so far.
RECURSIVE IoCopy(_, _, _)
IoCopy(w, r, pos) ==
    IF r.readErrAt = pos THEN [w |-> w, err |-> TRUE]
    ELSE IF pos = Len(r.body) THEN [w |-> w, err |-> FALSE]
    ELSE LET chunk == <<r.body[pos + 1]>>
         IN  IF WriteOk(w, chunk, r.limit)
             THEN IoCopy(Write(w, chunk, r.limit), r, pos + 1)
             ELSE [w |-> Write(w, chunk, r.limit), err |-> TRUE]

(***************************************************************************)
(* The handlers.  Each returns [w, log]: the response as the handler left  *)
(* it and the levels it logged at.                                         *)
(***************************************************************************)
EchoServeHTTP(w, r) ==
    LET c == IoCopy(w, r, 0)
    IN  [w |-> c.w, log |-> IF c.err THEN <<"warn">> ELSE <<>>]

\* HelloHandler.ServeHTTP without the return after the failed read: the
\* greeting follows the error message.
HelloServeHTTPNoReturn(w, r) ==
    LET rd == ReadAll(r)
        greeting == HelloPrefix \o rd.data \o Newline
        e == IF rd.err
             THEN HttpError(w, InternalServerErrorMsg, StatusInternalServerError, r.limit)
             ELSE w
    IN  [w |-> Write(e, greeting, r.limit),
         log |-> IF rd.err THEN <<"error">> ELSE <<>>]

HelloServeHTTP(w, r) ==
    LET rd == ReadAll(r)
        greeting == HelloPrefix \o rd.data \o Newline
    IN  IF rd.err
        THEN [w |-> HttpError(w, InternalServerErrorMsg,
                              StatusInternalServerError, r.limit),
              log |-> <<"error">>]
        ELSE IF ~WriteOk(w, greeting, r.limit)
        THEN [w |-> HttpError(Write(w, greeting, r.limit), InternalServerErrorMsg,
                              StatusInternalServerError, r.limit),
              log |-> <<"error">>]
        ELSE [w |-> Write(w, greeting, r.limit), log |-> <<>>]

RouteServeHTTP(h, w, r) ==
    IF h = "EchoHandler" THEN EchoServeHTTP(w, r) ELSE HelloServeHTTP(w, r)

(***************************************************************************)
(* The ServeMux: the set of <<pattern, handler>> registered, and whether a *)
(* registration panicked (a pattern registered twice).                     *)
(***************************************************************************)
EmptyMux == [entries |-> {}, panicked |-> FALSE]

MuxPatterns(mux) == {e[1] : e \in mux.entries}

\* mux.Handle(pattern, handler)
MuxHandle(mux, pattern, h) ==
    IF mux.panicked THEN mux
    ELSE IF pattern \in MuxPatterns(mux) THEN [mux EXCEPT !.panicked = TRUE]
    ELSE [mux EXCEPT !.entries = @ \cup {<<pattern, h>>}]

\* NewServeMux with a loop that returns after the first route.
RegisterRoutesFirstOnly(mux, routes) ==
    IF routes = <<>> THEN mux
    ELSE MuxHandle(mux, Pattern(Head(routes)), Head(routes))

\* NewServeMux: register each route of the group, in the order given.
RECURSIVE RegisterRoutes(_, _)
RegisterRoutes(mux, routes) ==
    IF routes = <<>> THEN mux
    ELSE RegisterRoutes(MuxHandle(mux, Pattern(Head(routes)), Head(routes)),
                        Tail(routes))

NewServeMux(routes) == RegisterRoutes(EmptyMux, routes)

\* path.Clean on the segments: drop "" and ".", let ".." remove its parent.
RECURSIVE CleanSegs(_, _)
CleanSegs(segs, acc) ==
    IF segs = <<>> THEN acc
    ELSE LET s == Head(segs)
         IN  IF s = "" \/ s = "." THEN CleanSegs(Tail(segs), acc)
             ELSE IF s = ".."
             THEN CleanSegs(Tail(segs),
                            IF acc = <<>> THEN acc ELSE SubSeq(acc, 1, Len(acc) - 1))
             ELSE CleanSegs(Tail(segs), Append(acc, s))

\* net/http cleanPath: the canonical path, keeping a trailing slash.
CleanPath(p) ==
    IF p = <<>> THEN <<"">>
    ELSE LET np == CleanSegs(p, <<>>)
         IN  IF np = <<>> THEN <<"">>
             ELSE IF p[Len(p)] = "" THEN Append(np, "") ELSE np

\* Matching by prefix: every pattern names a subtree.
PatternMatchesPrefix(pattern, path) ==
    /\ Len(path) >= Len(pattern)
    /\ SubSeq(path, 1, Len(pattern)) = pattern

\* A pattern matches a path it equals; a pattern ending in "/" matches the
\* paths below it.
PatternMatches(pattern, path) ==
    \/ pattern = path
    \/ /\ pattern[Len(pattern)] = ""
       /\ Len(path) >= Len(pattern)
       /\ SubSeq(path, 1, Len(pattern) - 1) = SubSeq(pattern, 1, Len(pattern) - 1)

\* The registered handlers whose pattern matches, longest pattern first.
MuxMatch(mux, path) ==
    LET ms == {e \in mux.entries : PatternMatches(e[1], path)}
    IN  {e[2] : e \in {m \in ms : \A o \in ms : Len(o[1]) <= Len(m[1])}}

\* The mux's choice for a request path: a redirect to the canonical path, the
\* handler registered for it, or NotFound.
MuxHandler(mux, path) ==
    IF /\ path \notin MuxPatterns(mux)
       /\ Append(path, "") \in MuxPatterns(mux)
    THEN [kind |-> "redirect", to |-> Append(path, "")]
    ELSE IF CleanPath(path) # path
    THEN [kind |-> "redirect", to |-> CleanPath(path)]
    ELSE IF MuxMatch(mux, path) # {}
    THEN [kind |-> "route", to |-> CHOOSE h \in MuxMatch(mux, path) : TRUE]
    ELSE [kind |-> "notfound", to |-> ""]

\* mux.ServeHTTP(w, r): [w, log, handler, location].  Of a redirect the status
\* and the Location are kept, not the body.
MuxServeHTTP(mux, r) ==
    LET d == MuxHandler(mux, r.path)
        w == NewResponse
    IN  IF d.kind = "redirect"
        THEN [w |-> WriteHeader(w, StatusMovedPermanently), log |-> <<>>,
              handler |-> "RedirectHandler", location |-> d.to]
        ELSE IF d.kind = "route"
        THEN LET res == RouteServeHTTP(d.to, w, r)
             IN  [w |-> FinishRequest(res.w), log |-> res.log,
                  handler |-> d.to, location |-> <<>>]
        ELSE [w |-> HttpError(w, NotFoundMsg, StatusNotFound, r.limit), log |-> <<>>,
              handler |-> "NotFoundHandler", location |-> <<>>]

(***************************************************************************)
(* State.                                                                  *)
(***************************************************************************)
VARIABLES
    routes,      \* the "routes" value group, in the order fx supplies it
    mux,         \* the *http.ServeMux (srv.Handler)
    pc,          \* where main is: new, mux, built, running, failed, stopping, exited
    exitCode,    \* the process's exit code once pc = "exited" (NoErr before)
    port,        \* who holds ":8080": free, self (the listener ln), other
    serveG,      \* the goroutine `go srv.Serve(ln)`: none, spawned, accepting, returned
    inShutdown,  \* srv.inShutdown
    inStop,      \* an OnStop call is in progress (Shutdown has not returned)
    stopWait,    \* Shutdown found a busy connection and sleeps until its next poll
    busyAtStop,  \* a connection was busy when OnStop was last called
    startErr,    \* what the last OnStart returned: none (not called), nil, bind
    stopErr,     \* what the last completed OnStop returned: none, nil, deadline
    nStart,      \* OnStart invocations so far
    nStop,       \* OnStop invocations so far
    conns,       \* the connection attempts, by client
    hpc,         \* a single request handed to the mux: none, new, served
    hreq,        \* that request
    hresp        \* and what mux.ServeHTTP made of it

vars == <<routes, mux, pc, exitCode, port, serveG, inShutdown, inStop, stopWait,
          busyAtStop, startErr, stopErr, nStart, nStop, conns, hpc, hreq, hresp>>

srvVars == <<port, serveG, inShutdown, inStop, stopWait, busyAtStop, startErr, stopErr,
             nStart, nStop>>

reqVars == <<hpc, hreq, hresp>>

(***************************************************************************)
(* Inputs.                                                                 *)
(***************************************************************************)
\* fx gives no order to a value group.
RouteOrders == {<<"EchoHandler", "HelloHandler">>, <<"HelloHandler", "EchoHandler">>}

BodyBytes == {0, 255}

SeqsUpTo(S, n) == UNION {[1..k -> S] : k \in 0..n}

Bodies == SeqsUpTo(BodyBytes, MaxBody)

Segments == {"echo", "hello", "missing", "", ".."}

\* The path of a request sent to the server starts with "/": one segment or more.
Paths == SeqsUpTo(Segments, MaxSegs) \ {<<>>}

\* write limits injected: none, or the writer fails from the first / second byte
Limits == {NoErr, 0, 1}

\* A read error, if any, comes after 0..Len(body) bytes.
Requests ==
    {r \in [path : Paths, body : Bodies, readErrAt : {NoErr} \cup (0..MaxBody),
            limit : Limits] : r.readErrAt <= Len(r.body)}

NoRequest == [path |-> <<"">>, body |-> <<>>, readErrAt |-> NoErr, limit |-> NoErr]

NoResponse == [w |-> NewResponse, log |-> <<>>, handler |-> "", location |-> <<>>]

\* The requests the clients of a running server send.
SampleRequests ==
    << [path |-> <<"echo">>, body |-> <<255>>, readErrAt |-> NoErr, limit |-> NoErr],
       [path |-> <<"hello">>, body |-> <<0>>, readErrAt |-> 0, limit |-> NoErr],
       [path |-> <<"echo">>, body |-> <<0>>, readErrAt |-> NoErr, limit |-> 0],
       [path |-> <<"hello">>, body |-> <<255>>, readErrAt |-> NoErr, limit |-> 1] >>

ConnIds == 1..MaxConns

NoConn == [state |-> "none", afterStop |-> FALSE, afterErr |-> FALSE,
           req |-> 0, status |-> 0, log |-> <<>>]

(***************************************************************************)
(* The server as the hooks and the goroutines of net/http see it.          *)
(***************************************************************************)
Busy(c) == conns[c].state = "active"

\* Closing the listener: the port is released and the connections still in
\* its backlog are reset.
CloseListener(cs) ==
    [c \in ConnIds |-> IF cs[c].state = "backlog"
                       THEN [cs[c] EXCEPT !.state = "reset"] ELSE cs[c]]

\* closeIdleConns: Shutdown closes the connections that serve no request.
CloseIdleConns(cs) ==
    [c \in ConnIds |-> IF cs[c].state = "idle"
                       THEN [cs[c] EXCEPT !.state = "closed"] ELSE cs[c]]

\* OnStart that goes on to `go srv.Serve(ln)` after a failed net.Listen.
OnStartIgnoresBindError ==
    /\ nStart' = nStart + 1
    /\ serveG' = "spawned"
    /\ IF port = "free"
       THEN /\ port' = "self"
            /\ startErr' = "nil"
       ELSE /\ startErr' = "bind"
            /\ UNCHANGED port
    /\ UNCHANGED <<inShutdown, inStop, stopErr, nStop, conns, stopWait, busyAtStop>>

\* OnStart: net.Listen, and on success `go srv.Serve(ln)`.
OnStart ==
    /\ nStart' = nStart + 1
    /\ IF port = "free"
       THEN /\ port' = "self"
            /\ serveG' = "spawned"
            /\ startErr' = "nil"
       ELSE /\ startErr' = "bind"
            /\ UNCHANGED <<port, serveG>>
    /\ UNCHANGED <<inShutdown, inStop, stopErr, nStop, conns, stopWait, busyAtStop>>

\* OnStop that closes the tracked listeners without marking the server as
\* shutting down.
ShutdownBeginKeepsServing ==
    /\ nStop' = nStop + 1
    /\ inStop' = TRUE
    /\ stopWait' = FALSE
    /\ busyAtStop' = \E c \in ConnIds : Busy(c)
    /\ IF serveG = "accepting" /\ port = "self"
       THEN /\ port' = "free"
            /\ conns' = CloseIdleConns(CloseListener(conns))
       ELSE /\ port' = port
            /\ conns' = CloseIdleConns(conns)
    /\ UNCHANGED <<inShutdown, serveG, startErr, stopErr, nStart>>

\* OnStop that closes the listener it bound whether or not Serve tracks it.
ShutdownBeginClosesBound ==
    /\ nStop' = nStop + 1
    /\ inStop' = TRUE
    /\ stopWait' = FALSE
    /\ busyAtStop' = \E c \in ConnIds : Busy(c)
    /\ inShutdown' = TRUE
    /\ IF port = "self"
       THEN /\ port' = "free"
            /\ conns' = CloseIdleConns(CloseListener(conns))
       ELSE /\ port' = port
            /\ conns' = CloseIdleConns(conns)
    /\ UNCHANGED <<serveG, startErr, stopErr, nStart>>

\* OnStop, up to where srv.Shutdown(ctx) starts to wait: inShutdown is set, the
\* listeners Serve has tracked are closed, the idle connections are closed.
ShutdownBegin ==
    /\ nStop' = nStop + 1
    /\ inStop' = TRUE
    /\ stopWait' = FALSE
    /\ busyAtStop' = \E c \in ConnIds : Busy(c)
    /\ inShutdown' = TRUE
    /\ IF serveG = "accepting" /\ port = "self"
       THEN /\ port' = "free"
            /\ conns' = CloseIdleConns(CloseListener(conns))
       ELSE /\ port' = port
            /\ conns' = CloseIdleConns(conns)
    /\ UNCHANGED <<serveG, startErr, stopErr, nStart>>

\* srv.Shutdown that returns nil without waiting for the busy connections.
ShutdownReturnNilEarly ==
    /\ inStop
    /\ serveG # "accepting"
    /\ inStop' = FALSE
    /\ stopWait' = FALSE
    /\ UNCHANGED busyAtStop
    /\ stopErr' = "nil"
    /\ UNCHANGED <<routes, mux, pc, exitCode, port, serveG, inShutdown, startErr,
                   nStart, nStop, conns>>
    /\ UNCHANGED reqVars

\* srv.Shutdown returns nil: Serve has returned and a poll (the first, or one
\* after the timer fired) finds no connection busy.
ShutdownReturnNil ==
    /\ inStop
    /\ serveG # "accepting"
    /\ \A c \in ConnIds : ~Busy(c)
    /\ inStop' = FALSE
    /\ stopWait' = FALSE
    /\ UNCHANGED busyAtStop
    /\ stopErr' = "nil"
    /\ UNCHANGED <<routes, mux, pc, exitCode, port, serveG, inShutdown, startErr,
                   nStart, nStop, conns>>
    /\ UNCHANGED reqVars

\* srv.Shutdown's poll, Serve having returned: a connection is busy, and
\* Shutdown sleeps until ctx is done or its timer fires.
ShutdownPollBusy ==
    /\ inStop
    /\ ~stopWait
    /\ serveG # "accepting"
    /\ \E c \in ConnIds : Busy(c)
    /\ stopWait' = TRUE
    /\ UNCHANGED <<routes, mux, pc, exitCode, port, serveG, inShutdown, inStop,
                   busyAtStop, startErr, stopErr, nStart, nStop, conns>>
    /\ UNCHANGED reqVars

\* srv.Shutdown returns ctx.Err(): ctx is done while Shutdown sleeps between
\* two polls.  Nothing is closed on the way out.
ShutdownReturnDeadline ==
    /\ inStop
    /\ stopWait
    /\ inStop' = FALSE
    /\ stopWait' = FALSE
    /\ UNCHANGED busyAtStop
    /\ stopErr' = "deadline"
    /\ UNCHANGED <<routes, mux, pc, exitCode, port, serveG, inShutdown, startErr,
                   nStart, nStop, conns>>
    /\ UNCHANGED reqVars

\* Serve that enters its accept loop without looking at inShutdown.
ServeBeginNoShutdownCheck ==
    /\ serveG = "spawned"
    /\ serveG' = "accepting"
    /\ UNCHANGED <<routes, mux, pc, exitCode, port, conns, inShutdown, inStop,
                   startErr, stopErr, nStart, nStop, stopWait, busyAtStop>>
    /\ UNCHANGED reqVars

\* The goroutine of `go srv.Serve(ln)` gets to run: Serve tracks the listener
\* and enters its accept loop, or, the server shutting down, returns
\* ErrServerClosed; returning closes the listener.
ServeBegin ==
    /\ serveG = "spawned"
    /\ IF inShutdown
       THEN /\ serveG' = "returned"
            /\ port' = "free"
            /\ conns' = CloseListener(conns)
       ELSE /\ serveG' = "accepting"
            /\ UNCHANGED <<port, conns>>
    /\ UNCHANGED <<routes, mux, pc, exitCode, inShutdown, inStop, startErr, stopErr,
                   nStart, nStop, stopWait, busyAtStop>>
    /\ UNCHANGED reqVars

\* Serve's Accept fails on the closed listener and Serve returns.
ServeReturn ==
    /\ serveG = "accepting"
    /\ port # "self"
    /\ serveG' = "returned"
    /\ UNCHANGED <<routes, mux, pc, exitCode, port, inShutdown, inStop, startErr,
                   stopErr, nStart, nStop, conns, stopWait, busyAtStop>>
    /\ UNCHANGED reqVars

\* A client connects to ":8080": the kernel queues the connection on the
\* listener when the process holds the port, and refuses it otherwise.
Connect(c) ==
    /\ conns[c].state = "none"
    /\ \A d \in ConnIds : d < c => conns[d].state # "none"
    /\ conns' = [conns EXCEPT ![c] =
                    [@ EXCEPT !.state = IF port = "self" THEN "backlog" ELSE "refused",
                              !.afterStop = (stopErr # "none" /\ ~inStop)]]
    /\ UNCHANGED <<routes, mux, pc, exitCode>>
    /\ UNCHANGED srvVars
    /\ UNCHANGED reqVars

\* Serve's accept loop: l.Accept() returns a queued connection, which Serve
\* tracks and hands to a goroutine of its own.
Accept(c) ==
    /\ serveG = "accepting"
    /\ port = "self"
    /\ conns[c].state = "backlog"
    /\ conns' = [conns EXCEPT ![c] =
                    [@ EXCEPT !.state = "active",
                              !.afterErr = \E d \in ConnIds : conns[d].log # <<>>]]
    /\ UNCHANGED <<routes, mux, pc, exitCode>>
    /\ UNCHANGED srvVars
    /\ UNCHANGED reqVars

\* A handler whose error takes the server down with it.
ServeConnErrorStopsServer(c, i) ==
    /\ conns[c].state = "active"
    /\ LET res == MuxServeHTTP(mux, SampleRequests[i])
       IN  /\ conns' = [conns EXCEPT ![c] =
                           [@ EXCEPT !.state = IF inShutdown THEN "closed" ELSE "idle",
                                     !.req = i,
                                     !.status = res.w.status,
                                     !.log = res.log]]
           /\ inShutdown' = (inShutdown \/ res.log # <<>>)
    /\ UNCHANGED <<routes, mux, pc, exitCode, port, serveG, inStop, startErr,
                   stopErr, nStart, nStop, stopWait, busyAtStop>>
    /\ UNCHANGED reqVars

\* The connection's goroutine reads a request and runs srv.Handler (the mux)
\* on it; the connection is kept alive unless the server is shutting down.
ServeConn(c, i) ==
    /\ conns[c].state = "active"
    /\ LET res == MuxServeHTTP(mux, SampleRequests[i])
       IN  conns' = [conns EXCEPT ![c] =
                        [@ EXCEPT !.state = IF inShutdown THEN "closed" ELSE "idle",
                                  !.req = i,
                                  !.status = res.w.status,
                                  !.log = res.log]]
    /\ UNCHANGED <<routes, mux, pc, exitCode>>
    /\ UNCHANGED srvVars
    /\ UNCHANGED reqVars

\* The client closes a kept-alive connection.
ClientClose(c) ==
    /\ conns[c].state = "idle"
    /\ conns' = [conns EXCEPT ![c] = [@ EXCEPT !.state = "closed"]]
    /\ UNCHANGED <<routes, mux, pc, exitCode>>
    /\ UNCHANGED srvVars
    /\ UNCHANGED reqVars

\* Another process takes ":8080" while it is free, or gives it up.
OtherBind ==
    /\ port = "free"
    /\ port' = "other"
    /\ UNCHANGED <<routes, mux, pc, exitCode, serveG, inShutdown, inStop, startErr,
                   stopErr, nStart, nStop, conns, stopWait, busyAtStop>>
    /\ UNCHANGED reqVars

OtherRelease ==
    /\ port = "other"
    /\ port' = "free"
    /\ UNCHANGED <<routes, mux, pc, exitCode, serveG, inShutdown, inStop, startErr,
                   stopErr, nStart, nStop, conns, stopWait, busyAtStop>>
    /\ UNCHANGED reqVars

ServerStep ==
    \/ ServeBegin
    \/ ServeReturn
    \/ ShutdownPollBusy
    \/ ShutdownReturnNil
    \/ ShutdownReturnDeadline
    \/ \E c \in ConnIds : Connect(c)
    \/ \E c \in ConnIds : Accept(c)
    \/ \E c \in ConnIds, i \in 1..Len(SampleRequests) : ServeConn(c, i)
    \/ \E c \in ConnIds : ClientClose(c)
    \/ OtherBind
    \/ OtherRelease

(***************************************************************************)
(* main: fx.New(...).Run().                                                *)
(***************************************************************************)
\* fx.New resolves *http.ServeMux: NewServeMux over the "routes" group.
BuildServeMux ==
    /\ pc = "new"
    /\ mux' = NewServeMux(routes)
    /\ pc' = "mux"
    /\ UNCHANGED <<routes, exitCode, conns>>
    /\ UNCHANGED srvVars
    /\ UNCHANGED reqVars

\* fx.New invokes func(*http.Server): NewHTTPServer makes srv with the mux as
\* its Handler and appends the hook.
NewHTTPServer ==
    /\ pc = "mux"
    /\ ~mux.panicked
    /\ pc' = "built"
    /\ UNCHANGED <<routes, mux, exitCode, conns>>
    /\ UNCHANGED srvVars
    /\ UNCHANGED reqVars

\* Run: app.Start runs OnStart; an error ends Run.
RunStart ==
    /\ pc = "built"
    /\ OnStart
    /\ pc' = IF startErr' = "nil" THEN "running" ELSE "failed"
    /\ UNCHANGED <<routes, mux, exitCode>>
    /\ UNCHANGED reqVars

\* Run: a termination signal arrives and app.Stop runs OnStop.
RunSignal ==
    /\ pc = "running"
    /\ ShutdownBegin
    /\ pc' = "stopping"
    /\ UNCHANGED <<routes, mux, exitCode>>
    /\ UNCHANGED reqVars

\* The process's end closes what it still holds.
ExitConns(cs) ==
    [c \in ConnIds |->
        IF cs[c].state = "backlog" THEN [cs[c] EXCEPT !.state = "reset"]
        ELSE IF cs[c].state \in {"active", "idle"} THEN [cs[c] EXCEPT !.state = "closed"]
        ELSE cs[c]]

\* Run returns and the process exits: 1 when Start or Stop failed, else 0.
RunExit ==
    /\ \/ pc = "failed"
       \/ pc = "stopping" /\ ~inStop
    /\ pc' = "exited"
    /\ exitCode' = IF pc = "failed" \/ stopErr # "nil" THEN 1 ELSE 0
    /\ port' = IF port = "self" THEN "free" ELSE port
    /\ serveG' = IF serveG = "none" THEN "none" ELSE "returned"
    /\ conns' = ExitConns(conns)
    /\ UNCHANGED <<routes, mux, inShutdown, inStop, startErr, stopErr, nStart, nStop,
            stopWait, busyAtStop>>
    /\ UNCHANGED reqVars

Init ==
    /\ routes \in RouteOrders
    /\ mux = EmptyMux
    /\ pc = "new"
    /\ exitCode = NoErr
    /\ port \in {"free", "other"}
    /\ serveG = "none"
    /\ inShutdown = FALSE
    /\ inStop = FALSE
    /\ stopWait = FALSE
    /\ busyAtStop = FALSE
    /\ startErr = "none"
    /\ stopErr = "none"
    /\ nStart = 0
    /\ nStop = 0
    /\ conns = [c \in ConnIds |-> NoConn]
    /\ hpc = "none"
    /\ hreq = NoRequest
    /\ hresp = NoResponse

Next ==
    \/ BuildServeMux
    \/ NewHTTPServer
    \/ RunStart
    \/ RunSignal
    \/ RunExit
    \/ ServerStep

Spec == Init /\ [][Next]_vars

(***************************************************************************)
(* The hook by itself: a lifecycle manager that calls OnStart and OnStop   *)
(* one at a time, any number of times and in any order, except that, as fx *)
(* does, it runs OnStop only once an OnStart has returned nil.             *)
(***************************************************************************)
CallOnStart ==
    /\ pc = "hooks"
    /\ ~inStop
    /\ nStart < MaxStarts
    /\ OnStart
    /\ UNCHANGED <<routes, mux, pc, exitCode>>
    /\ UNCHANGED reqVars

CallOnStop ==
    /\ pc = "hooks"
    /\ ~inStop
    /\ nStop < MaxStops
    /\ serveG # "none"
    /\ ShutdownBegin
    /\ UNCHANGED <<routes, mux, pc, exitCode>>
    /\ UNCHANGED reqVars

InitHooks ==
    /\ routes \in RouteOrders
    /\ mux = NewServeMux(routes)
    /\ pc = "hooks"
    /\ exitCode = NoErr
    /\ port \in {"free", "other"}
    /\ serveG = "none"
    /\ inShutdown = FALSE
    /\ inStop = FALSE
    /\ stopWait = FALSE
    /\ busyAtStop = FALSE
    /\ startErr = "none"
    /\ stopErr = "none"
    /\ nStart = 0
    /\ nStop = 0
    /\ conns = [c \in ConnIds |-> NoConn]
    /\ hpc = "none"
    /\ hreq = NoRequest
    /\ hresp = NoResponse

NextHooks ==
    \/ CallOnStart
    \/ CallOnStop
    \/ ServerStep

SpecHooks == InitHooks /\ [][NextHooks]_vars

(***************************************************************************)
(* One request through the mux: the handlers as functions of the request.  *)
(***************************************************************************)
\* srv.Handler.ServeHTTP(w, r) for the request hreq.
HandleRequest ==
    /\ pc = "mux"
    /\ hpc = "new"
    /\ hresp' = MuxServeHTTP(mux, hreq)
    /\ hpc' = "served"
    /\ UNCHANGED <<routes, mux, pc, exitCode, conns, hreq>>
    /\ UNCHANGED srvVars

InitHandlers ==
    /\ routes \in RouteOrders
    /\ mux = EmptyMux
    /\ pc = "new"
    /\ exitCode = NoErr
    /\ port = "free"
    /\ serveG = "none"
    /\ inShutdown = FALSE
    /\ inStop = FALSE
    /\ stopWait = FALSE
    /\ busyAtStop = FALSE
    /\ startErr = "none"
    /\ stopErr = "none"
    /\ nStart = 0
    /\ nStop = 0
    /\ conns = [c \in ConnIds |-> NoConn]
    /\ hpc = "new"
    /\ hreq \in Requests
    /\ hresp = NoResponse

NextHandlers ==
    \/ BuildServeMux
    \/ HandleRequest

SpecHandlers == InitHandlers /\ [][NextHandlers]_vars

(***************************************************************************)
(* Properties of one request through the mux (SpecHandlers).               *)
(***************************************************************************)
PathEcho == <<"echo">>

PathHello == <<"hello">>

Registered(path) == path = PathEcho \/ path = PathHello

\* A path in canonical form: not empty, no "." or ".." segment, and no empty
\* segment but a last one (the trailing slash).
Canonical(path) ==
    /\ Len(path) >= 1
    /\ \A k \in 1..Len(path) :
          /\ path[k] \notin {".", ".."}
          /\ path[k] = "" => k = Len(path)

Served == hpc = "served"

NoFault(r) ==
    /\ r.readErrAt = NoErr
    /\ r.limit = NoErr

\* A request for a registered path runs the handler registered for it, and no
\* request runs a handler registered for another path.
DispatchExact ==
    /\ hreq.path = PathEcho => hresp.handler = "EchoHandler"
    /\ hreq.path = PathHello => hresp.handler = "HelloHandler"
    /\ hresp.handler = "EchoHandler" => hreq.path = PathEcho
    /\ hresp.handler = "HelloHandler" => hreq.path = PathHello

\* C6 as stated: requests are dispatched by exact path match, whatever the
\* order of the routes group, and a request for a path that equals no
\* registered pattern runs no handler and gets 404 Not Found.
C6_DispatchOrNotFound ==
    Served =>
        /\ DispatchExact
        /\ ~Registered(hreq.path) =>
              /\ hresp.handler \notin Handlers
              /\ hresp.w.status = StatusNotFound

\* C6 amended: requests are dispatched by exact path match, whatever the order
\* of the routes group; a request for a path that equals no registered pattern
\* runs no handler, and gets 404 Not Found when the path is in canonical form
\* and a 301 redirect to the canonical path when it is not.
C6_DispatchNotFoundOrRedirect ==
    Served =>
        /\ DispatchExact
        /\ ~Registered(hreq.path) =>
              /\ hresp.handler \notin Handlers
              /\ Canonical(hreq.path) =>
                    /\ hresp.handler = "NotFoundHandler"
                    /\ hresp.w.status = StatusNotFound
              /\ ~Canonical(hreq.path) =>
                    /\ hresp.handler = "RedirectHandler"
                    /\ hresp.w.status = StatusMovedPermanently
                    /\ Canonical(hresp.location)

\* "//echo" is answered with a redirect, the group supplied Hello first.
C6_Witness ==
    /\ Served
    /\ routes = <<"HelloHandler", "EchoHandler">>
    /\ hreq.path = <<"", "echo">>
    /\ hresp.w.status = StatusMovedPermanently
    /\ hresp.location = PathEcho

\* C7: a request to /echo whose body B is read and written without an I/O
\* failure is answered with status 200 and a body of exactly B.
C7_EchoBody ==
    (Served /\ hreq.path = PathEcho /\ NoFault(hreq)) =>
        /\ hresp.w.body = hreq.body
        /\ hresp.w.status = StatusOK
        /\ hresp.log = <<>>

C7_Witness ==
    /\ Served
    /\ hreq.path = PathEcho
    /\ NoFault(hreq)
    /\ hreq.body = <<0, 255>>
    /\ hresp.w.body = <<0, 255>>

\* C8: a request to /hello with body T, read and written without an I/O
\* failure, is answered with status 200 and the body "Hello, " T "\n"; when
\* the body cannot be read the status is 500 and no greeting is written: the
\* body is (as much as the writer takes of) "Internal server error\n".
C8_HelloBody ==
    (Served /\ hreq.path = PathHello) =>
        /\ NoFault(hreq) =>
              /\ hresp.w.body = <<72, 101, 108, 108, 111, 44, 32>> \o hreq.body \o <<10>>
              /\ hresp.w.status = StatusOK
        /\ hreq.readErrAt # NoErr =>
              /\ hresp.w.status = StatusInternalServerError
              /\ \E k \in 0..(Len(InternalServerErrorMsg) + 1) :
                    hresp.w.body = Prefix(InternalServerErrorMsg \o <<10>>, k)
              /\ hresp.log = <<"error">>

C8_Witness ==
    /\ Served
    /\ hreq.path = PathHello
    /\ hreq.body = <<255, 0>>
    /\ hreq.readErrAt = 1
    /\ hreq.limit = NoErr
    /\ hresp.w.status = StatusInternalServerError
    /\ hresp.w.body = InternalServerErrorMsg \o <<10>>

(***************************************************************************)
(* Properties of the server's lifecycle.                                   *)
(***************************************************************************)
\* The lifecycle state of the server: Stopped once Shutdown has been called,
\* Listening while the listener is bound for a Serve that has not returned.
LifecycleState ==
    IF inShutdown THEN "Stopped"
    ELSE IF serveG \in {"spawned", "accepting"} THEN "Listening"
    ELSE "Constructed"

Accepted(c) == conns[c].state \in {"active", "idle", "closed"}

\* No connection is accepted in this step.
NoAccept == \A c \in ConnIds : conns'[c].state = "active" => conns[c].state = "active"

StopReturned == stopErr # "none" /\ ~inStop

\* This step is a return of OnStop.
StopReturns == inStop /\ ~inStop'

FullTable ==
    [entries |-> {<<PathEcho, "EchoHandler">>, <<PathHello, "HelloHandler">>},
     panicked |-> FALSE]

C2_BindFailure ==
    startErr = "bind" =>
        /\ pc \in {"failed", "exited"}
        /\ pc = "exited" => exitCode = 1
        /\ nStart = 1
        /\ nStop = 0
        /\ serveG = "none"
        /\ port # "self"
        /\ LifecycleState = "Constructed"
        /\ \A c \in ConnIds : conns[c].state \in {"none", "refused"}

C2_Witness ==
    /\ startErr = "bind"
    /\ pc = "exited"
    /\ exitCode = 1
    /\ \E c \in ConnIds : conns[c].state = "refused"

\* C3: once OnStop has returned, no step accepts a connection.
C3_NoAcceptAfterStop == [][StopReturned => NoAccept]_vars

\* OnStop returned before the Serve goroutine ran: the listener is still
\* bound, a client connects after the stop and stays in the backlog.
C3_Witness ==
    /\ StopReturned
    /\ nStart = 1
    /\ serveG = "spawned"
    /\ \E c \in ConnIds : conns[c].afterStop /\ conns[c].state = "backlog"

\* C4 as stated: when OnStop has returned, no in-flight request and no open
\* connection of the server remains.
C4_NothingLeftAfterStop ==
    (StopReturned /\ pc = "stopping") =>
        \A c \in ConnIds : conns[c].state \notin {"active", "idle"}

\* C4 amended: from the call of OnStop on no connection is accepted and no
\* step but the end of its own request closes a busy connection; OnStop
\* returns nil only when no accepted connection is left open; when the
\* deadline passes first it returns the context's error and closes nothing:
\* the requests still running keep their connections.
C4_DrainOrDeadline ==
    [][/\ inStop => NoAccept
       /\ inStop => \A c \in ConnIds :
             (conns[c].state = "active" /\ conns'[c].state # "active") =>
                 conns'[c].req # 0
       /\ StopReturns =>
             IF stopErr' = "nil"
             THEN \A c \in ConnIds : conns'[c].state \notin {"active", "idle"}
             ELSE /\ stopErr' = "deadline"
                  /\ conns' = conns]_vars

C4_Witness ==
    /\ pc = "stopping"
    /\ StopReturned
    /\ stopErr = "deadline"
    /\ \E c \in ConnIds : conns[c].state = "active"

\* This step is OnStop called on a server that is already Stopped.
StopAgain == ~inStop /\ inStop' /\ inShutdown

\* C5 as stated: OnStop called on a server that is already Stopped returns
\* nil and leaves the server state, the listener and the route table as they
\* were.
C5_StopAgainIsNil ==
    [][/\ StopAgain => <<inShutdown, port, serveG, mux, conns>>' =
                         <<inShutdown, port, serveG, mux, conns>>
       /\ (StopReturns /\ nStop >= 2) => stopErr' = "nil"]_vars

\* C5 amended: OnStop called on a server that is already Stopped leaves the
\* server state, the listener and the route table as they were; it returns
\* nil when no request was in flight at the call, and otherwise (a request
\* left running by an earlier stop that hit its deadline) waits for it and
\* returns the context's error if the deadline comes first.
C5_StopAgain ==
    [][/\ StopAgain => <<inShutdown, port, serveG, mux, conns>>' =
                         <<inShutdown, port, serveG, mux, conns>>
       /\ (StopReturns /\ nStop >= 2) =>
             /\ ~busyAtStop => stopErr' = "nil"
             /\ stopErr' = "nil" => \A c \in ConnIds : conns[c].state # "active"
             /\ <<inShutdown, port, serveG, mux, conns>>' =
                   <<inShutdown, port, serveG, mux, conns>>]_vars

\* A second stop has returned nil on a server that had served a connection.
C5_Witness ==
    /\ nStop = 2
    /\ StopReturned
    /\ stopErr = "nil"
    /\ \E c \in ConnIds : conns[c].state = "closed" /\ conns[c].req # 0

\* This step ends the request of connection c with an error logged by its
\* handler (a body-read failure or a response-write failure).
RequestError(c) ==
    /\ conns[c].state = "active"
    /\ conns'[c].log # <<>>

\* A request-level error changes nothing but its own connection: the server,
\* the process and the other connections are as before.
RequestErrorsStayLocal ==
    \A c \in ConnIds :
        RequestError(c) =>
            /\ UNCHANGED <<pc, exitCode, mux>>
            /\ UNCHANGED srvVars
            /\ \A d \in ConnIds \ {c} : conns'[d] = conns[d]

\* C9 as stated: a request-level error never stops the server or touches
\* another request, and the only error that ends the process with a failure
\* is the bind error of startup.
C9_OnlyBindErrorExits ==
    /\ [][RequestErrorsStayLocal]_vars
    /\ [](exitCode = 1 => startErr = "bind")

\* C9 amended: a request-level error never stops the server or touches
\* another request; the errors that end the process with a failure are the
\* bind error returned by OnStart and the deadline error of srv.Shutdown
\* returned by OnStop, never an error of a request.
C9_RequestErrorsStayLocal ==
    /\ [][RequestErrorsStayLocal]_vars
    /\ [](exitCode = 1 => (startErr = "bind" \/ stopErr = "deadline"))
    /\ [](pc = "failed" => startErr = "bind")

\* After a request failed, the server is still Listening and has accepted and
\* served another request.
C9_Witness ==
    /\ LifecycleState = "Listening"
    /\ \E c, d \in ConnIds :
          /\ conns[c].log = <<"error">>
          /\ conns[c].status = StatusInternalServerError
          /\ conns[d].afterErr
          /\ conns[d].state = "idle"
          /\ conns[d].status = StatusOK
          /\ conns[d].log = <<>>

\* C10: the route table is built once, with both handlers of the group,
\* before the listener is bound; from NewServeMux's return on it never
\* changes, so a Listening or Stopped server dispatches on the table built at
\* construction.
C10_RouteTableFrozen ==
    /\ [][/\ mux' # mux => (pc = "new" /\ mux = EmptyMux)
          /\ pc # "new" => mux' = mux]_vars
    /\ []((LifecycleState # "Constructed" \/ port = "self"
             \/ \E c \in ConnIds : Accepted(c)) => mux = FullTable)

C10_Witness ==
    /\ routes = <<"HelloHandler", "EchoHandler">>
    /\ mux = FullTable
    /\ LifecycleState = "Listening"
    /\ \E c \in ConnIds : conns[c].state = "idle" /\ conns[c].status = StatusOK

====
